---- MODULE Spec2Model ----
(***************************************************************************)
(* A model of the CWA temperature pipeline:                                *)
(*   dblite3.py       fetch -> extract_temperature_records -> init_db ->   *)
(*                    insert_temperature_records (the write path)          *)
(*   streamlit_app.py load_db_temperature / fetch_temperature_table and    *)
(*                    the source choice in main (the read path)            *)
(***************************************************************************)
EXTENDS Integers, Sequences, FiniteSets, TLC

VARIABLES
    payload,    \* the decoded JSON handed to a normalizer
    ncall,      \* which normalizer ran on it: "none", "extract", "fetch"
    nres,       \* what that normalizer returned or raised
    db,         \* the committed contents of the store file
    conn,       \* the writer's connection handle: "none" or "open"
    txn,        \* that connection's open transaction, if any
    pc,         \* "idle", or "loop" inside insert_temperature_records
    done,       \* the records the current / last call has taken from its iterable
    todo,       \* for a repeated call: the records its iterable still holds
    rerun,      \* the current / last call repeats the call before it
    outcome,    \* how the last call ended: "none", "committed", "raised"
    whole,      \* the store built from the complete batches only
    upstream,   \* what the CWA endpoint answers at this moment
    dbCache,    \* st.cache_data entry of load_db_temperature
    fetchCache, \* st.cache_data entry of fetch_temperature_table
    shown,      \* what the last run of the dashboard's main presented
    gap         \* seconds since that run (counted up to TtlDb)

normVars == <<payload, ncall, nres>>
storeVars == <<db, conn, txn, pc, done, todo, rerun, outcome, whole>>
readerVars == <<upstream, dbCache, fetchCache, shown, gap>>
vars == <<normVars, storeVars, readerVars>>

(***************************************************************************)
(* Python values.  JSON strings used as names and dates are TLA+ strings;  *)
(* Python's None in a name or date position is the string None.  A raw     *)
(* temperature (any JSON value) and a Python float are tagged records.     *)
(***************************************************************************)
None == "None"

RawNum(n) == [k |-> "num", v |-> n]        \* a JSON number
RawStr(n) == [k |-> "numstr", v |-> n]     \* a JSON string holding a decimal
RawBad == [k |-> "badstr", v |-> 0]        \* a JSON string such as "abc"
RawInf == [k |-> "infstr", v |-> 0]        \* the JSON string "inf"
RawNan == [k |-> "nanstr", v |-> 0]        \* the JSON string "nan"
RawNull == [k |-> "null", v |-> 0]         \* JSON null
RawBool(b) == [k |-> "bool", v |-> b]      \* JSON true (1) / false (0)
RawList == [k |-> "list", v |-> 0]         \* a JSON array

Float(n) == [k |-> "float", v |-> n]
FloatInf == [k |-> "inf", v |-> 0]
FloatNan == [k |-> "nan", v |-> 0]
NoneT == [k |-> "none", v |-> 0]           \* None in a temperature position

IsFinite(t) == t.k = "float"

\* A call's outcome: exc = "none" and a value, or the exception raised.
Ok(v) == [exc |-> "none", val |-> v]
Raise(e) == [exc |-> e, val |-> <<>>]

\* float(x) of Python, by the type of its argument.
PyFloat(x) ==
    CASE x.k = "num" -> Ok(Float(x.v))
      [] x.k = "numstr" -> Ok(Float(x.v))
      [] x.k = "bool" -> Ok(Float(x.v))
      [] x.k = "infstr" -> Ok(FloatInf)
      [] x.k = "nanstr" -> Ok(FloatNan)
      [] x.k = "badstr" -> Raise("ValueError")
      [] x.k = "null" -> Raise("TypeError")
      [] x.k = "list" -> Raise("TypeError")

\* d[key] of a dict.
GetItem(d, key) == IF key \in DOMAIN d THEN Ok(d[key]) ELSE Raise("KeyError")

\* d.get(key) of a dict, in a temperature position.
DictGetTemp(d, key) == IF key \in DOMAIN d THEN d[key] ELSE RawNull

\* d.get(key) of a dict, in a date position.
DictGetDate(d, key) == IF key \in DOMAIN d THEN d[key] ELSE None

PathKeys ==
    <<"cwaopendata", "resources", "resource", "data",
      "agrWeatherForecasts", "weatherForecasts", "location">>

\* data[k1][k2]...[kn]
RECURSIVE Dig(_, _)
Dig(d, keys) ==
    IF keys = <<>> THEN Ok(d)
    ELSE IF Head(keys) \in DOMAIN d THEN Dig(d[Head(keys)], Tail(keys))
    ELSE Raise("KeyError")

Min2(a, b) == IF a <= b THEN a ELSE b

\* zip(xs, ys)
Zip(xs, ys) == [i \in 1..Min2(Len(xs), Len(ys)) |-> <<xs[i], ys[i]>>]

(***************************************************************************)
(* dblite3.extract_temperature_records                                     *)
(***************************************************************************)
\* try: float(rec["temperature"]) except (KeyError, TypeError, ValueError): None
ExtractTemp(rec) ==
    LET t == GetItem(rec, "temperature")
    IN  IF t.exc # "none" THEN NoneT
        ELSE LET f == PyFloat(t.val)
             IN  IF f.exc = "none" THEN f.val ELSE NoneT

\* (mutant) the date is drawn from the minimum-temperature element
ExtractPair_DateFromMin(loc_name, max_rec, min_rec) ==
    LET date == GetItem(min_rec, "dataDate")
    IN  IF date.exc # "none" THEN Raise(date.exc)
        ELSE Ok(<<loc_name, date.val, ExtractTemp(min_rec), ExtractTemp(max_rec)>>)

\* The body of the inner loop for one zipped pair.
ExtractPair(loc_name, max_rec, min_rec) ==
    LET date == GetItem(max_rec, "dataDate")
    IN  IF date.exc # "none" THEN Raise(date.exc)
        ELSE Ok(<<loc_name, date.val, ExtractTemp(min_rec), ExtractTemp(max_rec)>>)

RECURSIVE ExtractPairs(_, _)
ExtractPairs(loc_name, pairs) ==
    IF pairs = <<>> THEN Ok(<<>>)
    ELSE LET r == ExtractPair(loc_name, Head(pairs)[1], Head(pairs)[2])
         IN  IF r.exc # "none" THEN Raise(r.exc)
             ELSE LET rest == ExtractPairs(loc_name, Tail(pairs))
                  IN  IF rest.exc # "none" THEN Raise(rest.exc)
                      ELSE Ok(<<r.val>> \o rest.val)

\* The body of the outer loop for one location entry.
ExtractLoc(loc) ==
    LET name == GetItem(loc, "locationName")
        maxd == Dig(loc, <<"weatherElements", "MaxT", "daily">>)
        mind == Dig(loc, <<"weatherElements", "MinT", "daily">>)
    IN  IF name.exc # "none" THEN Raise(name.exc)
        ELSE IF maxd.exc # "none" THEN Raise(maxd.exc)
        ELSE IF mind.exc # "none" THEN Raise(mind.exc)
        ELSE ExtractPairs(name.val, Zip(maxd.val, mind.val))

RECURSIVE ExtractLocs(_)
ExtractLocs(locs) ==
    IF locs = <<>> THEN Ok(<<>>)
    ELSE LET r == ExtractLoc(Head(locs))
         IN  IF r.exc # "none" THEN Raise(r.exc)
             ELSE LET rest == ExtractLocs(Tail(locs))
                  IN  IF rest.exc # "none" THEN Raise(rest.exc)
                      ELSE Ok(r.val \o rest.val)

extract_temperature_records(data) ==
    LET locations == Dig(data, PathKeys)
    IN  IF locations.exc # "none" THEN Raise(locations.exc)
        ELSE ExtractLocs(locations.val)

(***************************************************************************)
(* streamlit_app.fetch_temperature_table, the loop that builds `rows`      *)
(***************************************************************************)
\* try: float(rec.get("temperature")) except (TypeError, ValueError): None
FetchTemp(rec) ==
    LET f == PyFloat(DictGetTemp(rec, "temperature"))
    IN  IF f.exc = "none" THEN f.val ELSE NoneT

FetchPair(loc_name, max_rec, min_rec) ==
    <<loc_name, DictGetDate(max_rec, "dataDate"), FetchTemp(min_rec), FetchTemp(max_rec)>>

FetchLoc(loc) ==
    LET name == GetItem(loc, "locationName")
        maxd == Dig(loc, <<"weatherElements", "MaxT", "daily">>)
        mind == Dig(loc, <<"weatherElements", "MinT", "daily">>)
    IN  IF name.exc # "none" THEN Raise(name.exc)
        ELSE IF maxd.exc # "none" THEN Raise(maxd.exc)
        ELSE IF mind.exc # "none" THEN Raise(mind.exc)
        ELSE LET pairs == Zip(maxd.val, mind.val)
             IN  Ok([i \in 1..Len(pairs) |->
                        FetchPair(name.val, pairs[i][1], pairs[i][2])])

RECURSIVE FetchLocs(_)
FetchLocs(locs) ==
    IF locs = <<>> THEN Ok(<<>>)
    ELSE LET r == FetchLoc(Head(locs))
         IN  IF r.exc # "none" THEN Raise(r.exc)
             ELSE LET rest == FetchLocs(Tail(locs))
                  IN  IF rest.exc # "none" THEN Raise(rest.exc)
                      ELSE Ok(r.val \o rest.val)

FetchRows(data) ==
    LET locations == Dig(data, PathKeys)
    IN  IF locations.exc # "none" THEN Raise(locations.exc)
        ELSE FetchLocs(locations.val)

(***************************************************************************)
(* The SQLite store of dblite3.py.  A table is a set of rows; a row keeps  *)
(* its AUTOINCREMENT id, so two rows with equal columns are two rows.      *)
(***************************************************************************)
EmptyDb ==
    [schema |-> FALSE, locations |-> {}, temperatures |-> {},
     seqLoc |-> 0, seqTemp |-> 0]

\* CREATE TABLE IF NOT EXISTS locations / temperatures
CreateTables(d) == [d EXCEPT !.schema = TRUE]

\* CREATE TABLE [IF NOT EXISTS] for the two tables: without IF NOT EXISTS
\* the statement fails on a table that is there; with it the statement
\* leaves such a table, its columns, constraints and rows, as it is.
CreateTableStmt(d, if_not_exists) ==
    IF d.schema /\ ~if_not_exists
    THEN [exc |-> "OperationalError", db |-> d]
    ELSE [exc |-> "none", db |-> CreateTables(d)]

\* (mutant) init_db with plain CREATE TABLE statements
init_db_Plain(d) == CreateTableStmt(d, FALSE)

\* init_db on the committed store d: both statements say IF NOT EXISTS,
\* and conn.commit() has nothing to commit.
init_db(d) == CreateTableStmt(d, TRUE)

\* A float bound to a REAL column: SQLite stores a NaN as NULL.
BindReal(t) == IF t.k = "nan" THEN NoneT ELSE t

\* (mutant) INSERT without OR IGNORE into a table without UNIQUE(name)
InsertLocation_NoIgnore(d, name) ==
    IF name = None
    THEN d
    ELSE [d EXCEPT !.locations = @ \cup {[id |-> d.seqLoc + 1, name |-> name]},
                   !.seqLoc = @ + 1]

\* INSERT OR IGNORE INTO locations(name) VALUES (?): a NULL name (NOT NULL)
\* and a name already there (UNIQUE) are skipped.
InsertOrIgnoreLocation(d, name) ==
    IF name = None \/ \E l \in d.locations : l.name = name
    THEN d
    ELSE [d EXCEPT !.locations = @ \cup {[id |-> d.seqLoc + 1, name |-> name]},
                   !.seqLoc = @ + 1]

\* SELECT id FROM locations WHERE name = ?  (name = NULL matches no row)
SelectLocationIds(d, name) ==
    IF name = None THEN {} ELSE {l.id : l \in {x \in d.locations : x.name = name}}

\* get_or_create_location_id: the store after it, and the id or the exception.
get_or_create_location_id(d, location_name) ==
    LET d1 == InsertOrIgnoreLocation(d, location_name)
        ids == SelectLocationIds(d1, location_name)
    IN  IF ids = {} THEN [exc |-> "RuntimeError", db |-> d1, id |-> 0]
        ELSE [exc |-> "none", db |-> d1, id |-> CHOOSE i \in ids : TRUE]

\* (mutant) INSERT without the ON CONFLICT clause and its UNIQUE constraint
UpsertTemperature_NoConflict(d, location_id, date, min_t, max_t) ==
    IF date = None THEN [exc |-> "IntegrityError", db |-> d]
    ELSE [exc |-> "none",
          db |-> [d EXCEPT !.temperatures = @ \cup
                        {[id |-> d.seqTemp + 1, location_id |-> location_id,
                          date |-> date, min_temp_c |-> BindReal(min_t),
                          max_temp_c |-> BindReal(max_t)]},
                    !.seqTemp = @ + 1]]

\* INSERT INTO temperatures ... ON CONFLICT(location_id, date) DO UPDATE SET
\* min_temp_c, max_temp_c.  A NULL date violates NOT NULL: IntegrityError.
UpsertTemperature(d, location_id, date, min_t, max_t) ==
    IF date = None THEN [exc |-> "IntegrityError", db |-> d]
    ELSE IF \E t \in d.temperatures : t.location_id = location_id /\ t.date = date
    THEN [exc |-> "none",
          db |-> [d EXCEPT !.temperatures =
                    {IF t.location_id = location_id /\ t.date = date
                     THEN [t EXCEPT !.min_temp_c = BindReal(min_t),
                                    !.max_temp_c = BindReal(max_t)]
                     ELSE t : t \in @}]]
    ELSE [exc |-> "none",
          db |-> [d EXCEPT !.temperatures = @ \cup
                        {[id |-> d.seqTemp + 1, location_id |-> location_id,
                          date |-> date, min_temp_c |-> BindReal(min_t),
                          max_temp_c |-> BindReal(max_t)]},
                    !.seqTemp = @ + 1]]

\* One pass of the loop of insert_temperature_records, on the connection's
\* view d of the store: the view after it and the exception it raised, if any.
InsertOne(d, rec) ==
    LET g == get_or_create_location_id(d, rec[1])
    IN  IF g.exc # "none" THEN [exc |-> g.exc, db |-> g.db]
        ELSE UpsertTemperature(g.db, g.id, rec[2], rec[3], rec[4])

\* SELECT l.name, t.date, t.min_temp_c, t.max_temp_c
\* FROM temperatures t JOIN locations l ON t.location_id = l.id:
\* the joined rows, each with the id of its temperatures row.
JoinRows(d) ==
    {[id |-> t.id, location |-> l.name, date |-> t.date,
      min_temp_C |-> t.min_temp_c, max_temp_C |-> t.max_temp_c] :
        <<t, l>> \in {x \in d.temperatures \X d.locations : x[1].location_id = x[2].id}}

\* What a reader on its own connection sees of a store: the location names
\* and the joined observations, without the row ids, and how many rows of
\* each there are.
Names(d) == {l.name : l \in d.locations}
Observations(d) ==
    {<<r.location, r.date, r.min_temp_C, r.max_temp_C>> : r \in JoinRows(d)}
Seen(d) ==
    [names |-> Names(d), nlocs |-> Cardinality(d.locations),
     obs |-> Observations(d), nobs |-> Cardinality(JoinRows(d))]

(***************************************************************************)
(* The writer's connection.  Python's sqlite3 opens a transaction before   *)
(* the first INSERT of a call; the writes stay in it until conn.commit().  *)
(***************************************************************************)
NoTxn == [active |-> FALSE, db |-> EmptyDb]

\* The store as the statements of the writer's connection see it.
View == IF txn.active THEN txn.db ELSE db

(***************************************************************************)
(* Tables (DataFrames) of streamlit_app.py: a sequence of rows             *)
(* <<location, date, min_temp_C, max_temp_C>>.                             *)
(***************************************************************************)
\* A temperature cell of a DataFrame column of floats: None is held as NaN.
DfCell(t) == IF t.k = "none" THEN FloatNan ELSE t
DfRow(r) == <<r[1], r[2], DfCell(r[3]), DfCell(r[4])>>

\* The order of the strings of the model; a missing value sorts last.
Rank(x) ==
    CASE x = "A" -> 1 [] x = "B" -> 2 [] x = "d1" -> 1 [] x = "d2" -> 2
      [] OTHER -> 9

\* r1 comes before r2 under sort_values(["location", "date"])
RowBefore(r1, r2) ==
    \/ Rank(r1[1]) < Rank(r2[1])
    \/ Rank(r1[1]) = Rank(r2[1]) /\ Rank(r1[2]) < Rank(r2[2])

\* r put into a sorted sequence, after the rows that do not come after it.
RECURSIVE InsertRow(_, _)
InsertRow(rows, r) ==
    IF rows = <<>> THEN <<r>>
    ELSE IF RowBefore(r, Head(rows)) THEN <<r>> \o rows
    ELSE <<Head(rows)>> \o InsertRow(Tail(rows), r)

\* df.sort_values(["location", "date"]).reset_index(drop=True)
RECURSIVE SortValues(_)
SortValues(rows) ==
    IF rows = <<>> THEN <<>>
    ELSE InsertRow(SortValues(SubSeq(rows, 1, Len(rows) - 1)), rows[Len(rows)])

\* j comes before r under ORDER BY t.date, l.name (ties in the order of the ids)
SqlBefore(j, r) ==
    \/ Rank(j.date) < Rank(r.date)
    \/ Rank(j.date) = Rank(r.date) /\ Rank(j.location) < Rank(r.location)
    \/ Rank(j.date) = Rank(r.date) /\ Rank(j.location) = Rank(r.location) /\ j.id < r.id

\* The result of the SELECT of load_db_temperature, in its ORDER BY order.
RECURSIVE SqlOrdered(_)
SqlOrdered(js) ==
    IF js = {} THEN <<>>
    ELSE LET j == CHOOSE x \in js : \A y \in js \ {x} : SqlBefore(x, y)
         IN  <<<<j.location, j.date, j.min_temp_C, j.max_temp_C>>>>
             \o SqlOrdered(js \ {j})

\* (mutant) load_db_temperature without its sort_values: the rows stay in
\* the ORDER BY t.date, l.name order of the SELECT
LoadDb_SqlOrder(d) ==
    IF ~d.schema THEN <<>>
    ELSE LET df == SqlOrdered(JoinRows(d))
         IN  [i \in 1..Len(df) |-> DfRow(df[i])]

\* load_db_temperature, uncached: the empty table when the tables are not
\* there (read_sql raises), else the joined rows sorted by location and date.
LoadDb(d) ==
    IF ~d.schema THEN <<>>
    ELSE LET df == SqlOrdered(JoinRows(d))
         IN  SortValues([i \in 1..Len(df) |-> DfRow(df[i])])

\* What the endpoint answers: up with a JSON body, or down (timeout,
\* connection error, non-2xx status).
Down == [up |-> FALSE, body |-> <<>>]
Up(p) == [up |-> TRUE, body |-> p]

\* fetch_temperature_table, uncached: requests.get / raise_for_status raise
\* when the endpoint is down; the loop raises KeyError on a missing key;
\* sort_values raises KeyError when `rows` is empty (a frame without columns).
FetchTable(u) ==
    IF ~u.up THEN Raise("RequestException")
    ELSE LET rows == FetchRows(u.body)
         IN  IF rows.exc # "none" THEN Raise(rows.exc)
             ELSE IF rows.val = <<>> THEN Raise("KeyError")
             ELSE Ok(SortValues([i \in 1..Len(rows.val) |-> DfRow(rows.val[i])]))

(***************************************************************************)
(* st.cache_data(ttl=...): one entry per function (the arguments are the   *)
(* defaults), holding the value returned and its age in seconds.           *)
(***************************************************************************)
TtlFetch == 3600
TtlDb == 300

NoEntry == [has |-> FALSE, val |-> <<>>, age |-> 0]
Fresh(c, ttl) == c.has /\ c.age < ttl

\* (mutant) an entry never expires
CachedCall_NoExpiry(c, ttl, r) ==
    IF c.has THEN [cache |-> c, res |-> Ok(c.val), called |-> FALSE]
    ELSE IF r.exc = "none"
    THEN [cache |-> [has |-> TRUE, val |-> r.val, age |-> 0], res |-> r, called |-> TRUE]
    ELSE [cache |-> NoEntry, res |-> r, called |-> TRUE]

\* A call of a cached function whose body would end as r: the entry after
\* the call, what the call returns or raises, and whether the body ran.
CachedCall(c, ttl, r) ==
    IF Fresh(c, ttl) THEN [cache |-> c, res |-> Ok(c.val), called |-> FALSE]
    ELSE IF r.exc = "none"
    THEN [cache |-> [has |-> TRUE, val |-> r.val, age |-> 0], res |-> r, called |-> TRUE]
    ELSE [cache |-> NoEntry, res |-> r, called |-> TRUE]

\* The entry d seconds later.
Aged(c, ttl, d) ==
    IF c.has THEN [c EXCEPT !.age = IF @ + d >= ttl THEN ttl ELSE @ + d] ELSE c

\* Before the dashboard has run.
NotShown ==
    [src |-> "none", table |-> <<>>, dfdb |-> <<>>, queried |-> FALSE,
     fetched |-> FALSE, stale |-> FALSE]

(***************************************************************************)
(* Feeds.  The records a call of insert_temperature_records is given are   *)
(* what extract_temperature_records emits for the entries of StoreFeed.    *)
(***************************************************************************)
RECURSIVE Wrap(_, _)
Wrap(keys, v) ==
    IF keys = <<>> THEN v ELSE [x \in {Head(keys)} |-> Wrap(Tail(keys), v)]

Feed(locs) == Wrap(PathKeys, locs)

Element(date, raw) == [dataDate |-> date, temperature |-> raw]

Entry(name, maxd, mind) ==
    [locationName |-> name,
     weatherElements |-> [MaxT |-> [daily |-> maxd], MinT |-> [daily |-> mind]]]

OnePair(name, date, rawmin, rawmax) ==
    Feed(<<Entry(name, <<Element(date, rawmax)>>, <<Element(date, rawmin)>>)>>)

StoreFeed ==
    {OnePair("A", "d1", RawStr(10), RawStr(20)),
     OnePair("A", "d1", RawStr(8), RawStr(22)),
     OnePair("A", "d2", RawBad, RawNum(22)),
     OnePair("B", "d1", RawNan, RawInf),
     OnePair(None, "d1", RawStr(10), RawStr(20)),
     OnePair("B", None, RawStr(10), RawStr(20))}

Recs == {extract_temperature_records(p).val[1] : p \in StoreFeed}

MaxBatch == 2

(***************************************************************************)
(* The write path: init_db and insert_temperature_records.                 *)
(***************************************************************************)
\* init_db: connect, create the tables if absent, commit.  The caller's
\* name is bound to the new handle; the handle it held before, if any, has
\* no open transaction (a handle that has one is closed first, see Close).
InitDb ==
    LET r == init_db(db)
    IN  /\ pc = "idle"
        /\ ~txn.active
        /\ db' = r.db
        /\ whole' = init_db(whole).db
        /\ IF r.exc = "none"
           THEN conn' = "open" /\ UNCHANGED outcome
           ELSE UNCHANGED conn /\ outcome' = "init_raised"
        /\ txn' = NoTxn
        /\ UNCHANGED <<pc, done, todo, rerun, normVars, readerVars>>

\* init_db called on a handle of its own that is closed at once, beside the
\* writer's handle and at any point of its call: the statements run on the
\* committed store, and what the writer has not committed is out of sight.
InitDbAgain ==
    LET r == init_db(db)
    IN  /\ db' = r.db
        /\ whole' = init_db(whole).db
        /\ outcome' = IF r.exc = "none" THEN "init_ok" ELSE "init_raised"
        /\ UNCHANGED <<conn, txn, pc, done, todo, rerun, normVars, readerVars>>

\* insert_temperature_records(conn, records) is called: cur = conn.cursor()
CallInsert ==
    /\ pc = "idle" /\ conn = "open"
    /\ pc' = "loop"
    /\ done' = <<>> /\ todo' = <<>> /\ rerun' = FALSE
    /\ outcome' = "none"
    /\ UNCHANGED <<db, conn, txn, whole, normVars, readerVars>>

\* The call before is repeated with the same records.
CallAgain ==
    /\ pc = "idle" /\ conn = "open"
    /\ outcome \in {"committed", "raised"} /\ ~rerun
    /\ pc' = "loop"
    /\ todo' = done /\ done' = <<>> /\ rerun' = TRUE
    /\ outcome' = "none"
    /\ UNCHANGED <<db, conn, txn, whole, normVars, readerVars>>

\* One pass of `for loc_name, date, min_t, max_t in records`.
LoopBody(rec) ==
    LET r == InsertOne(View, rec)
    IN  /\ txn' = [active |-> TRUE, db |-> r.db]
        /\ done' = Append(done, rec)
        /\ IF r.exc = "none"
           THEN UNCHANGED <<pc, outcome>>
           ELSE pc' = "idle" /\ outcome' = "raised"
        /\ UNCHANGED <<db, conn, rerun, whole, normVars, readerVars>>

\* The iterable yields another record.
NextRecord ==
    /\ pc = "loop" /\ ~rerun /\ Len(done) < MaxBatch
    /\ \E rec \in Recs : LoopBody(rec) /\ UNCHANGED todo

\* The iterable of a repeated call yields the record it yielded before.
SameRecord ==
    /\ pc = "loop" /\ rerun /\ todo # <<>>
    /\ LoopBody(Head(todo)) /\ todo' = Tail(todo)

RECURSIVE ApplyAll(_, _)
ApplyAll(d, recs) ==
    IF recs = <<>> THEN d ELSE ApplyAll(InsertOne(d, Head(recs)).db, Tail(recs))

\* The iterable is exhausted: conn.commit()
Commit ==
    /\ pc = "loop" /\ (rerun => todo = <<>>)
    /\ db' = View
    /\ txn' = NoTxn
    /\ pc' = "idle"
    /\ outcome' = "committed"
    /\ whole' = ApplyAll(whole, done)
    /\ UNCHANGED <<conn, done, todo, rerun, normVars, readerVars>>

\* conn.close(), or the process ends: what was not committed is rolled back.
Close ==
    /\ pc = "idle" /\ conn = "open"
    /\ conn' = "none"
    /\ txn' = NoTxn
    /\ UNCHANGED <<db, pc, done, todo, rerun, outcome, whole, normVars, readerVars>>

Init ==
    /\ payload = <<>> /\ ncall = "none" /\ nres = Ok(<<>>)
    /\ db = EmptyDb /\ conn = "none" /\ txn = NoTxn
    /\ pc = "idle" /\ done = <<>> /\ todo = <<>> /\ rerun = FALSE
    /\ outcome = "none"
    /\ whole = EmptyDb
    /\ upstream = Down /\ dbCache = NoEntry /\ fetchCache = NoEntry
    /\ shown = NotShown /\ gap = 0

Next ==
    \/ InitDb
    \/ CallInsert
    \/ CallAgain
    \/ NextRecord
    \/ SameRecord
    \/ Commit
    \/ Close

Spec == Init /\ [][Next]_vars

\* The write path with further init_db calls anywhere between its steps.
NextSchema == Next \/ InitDbAgain

SpecSchema == Init /\ [][NextSchema]_vars

(***************************************************************************)
(* The store: uniqueness, upsert, idempotence, atomicity of a batch.       *)
(***************************************************************************)
Key(rec) == <<rec[1], rec[2]>>
KeysOf(recs) == {Key(recs[i]) : i \in 1..Len(recs)}
LastWith(recs, key) ==
    recs[CHOOSE i \in 1..Len(recs) :
            /\ Key(recs[i]) = key
            /\ \A j \in 1..Len(recs) : Key(recs[j]) = key => j <= i]

UniqueRows(d) ==
    /\ \A t1, t2 \in d.temperatures :
          (t1.location_id = t2.location_id /\ t1.date = t2.date) => t1 = t2
    /\ \A l1, l2 \in d.locations : l1.name = l2.name => l1 = l2
    /\ \A r1, r2 \in JoinRows(d) :
          (r1.location = r2.location /\ r1.date = r2.date) => r1 = r2

\* C1: whatever init_db and insert_temperature_records calls were made, the
\* temperatures table holds at most one row for every (location, date) pair
\* and the locations table at most one row for every name, in the committed
\* store and in the store as the writer's connection sees it.
C1_UniqueKeys == UniqueRows(db) /\ UniqueRows(View)

\* A committed batch that named one key twice, on a store with rows.
C1_Witness ==
    /\ pc = "idle" /\ outcome = "committed" /\ Len(done) = 2
    /\ Key(done[1]) = Key(done[2]) /\ done[1] # done[2]
    /\ Cardinality(db.temperatures) >= 2
    /\ Cardinality(db.locations) >= 2

\* C2: when insert_temperature_records(batch) commits, every key of the
\* batch is stored in exactly one row, holding the min/max (as SQLite binds
\* them) of the last record of the batch with that key, and the rows a
\* reader saw before the call whose key is not in the batch are the rows
\* with such keys it sees after it.
C2_LastWriteWins ==
    [][Commit =>
        /\ \A key \in KeysOf(done) :
              LET last == LastWith(done, key)
                  rows == {r \in JoinRows(db') : <<r.location, r.date>> = key}
              IN  /\ Cardinality(rows) = 1
                  /\ \A r \in rows : /\ r.min_temp_C = BindReal(last[3])
                                      /\ r.max_temp_C = BindReal(last[4])
        /\ {o \in Observations(db) : <<o[1], o[2]>> \notin KeysOf(done)}
             = {o \in Observations(db') : <<o[1], o[2]>> \notin KeysOf(done)}
      ]_vars

\* C3: a call repeated with the records of the call before it leaves a
\* reader with the location names and the (location, date, min, max)
\* observations the first call left: no step of the repeated call, its
\* commit included, changes what the store holds.
C3_Idempotent == [][(pc = "loop" /\ rerun) => Seen(db') = Seen(db)]_vars

\* A repeated call that committed a batch naming one key twice.
C3_Witness ==
    /\ pc = "idle" /\ rerun /\ outcome = "committed" /\ Len(done) = 2
    /\ Key(done[1]) = Key(done[2]) /\ done[1] # done[2]
    /\ Observations(db) # {}

\* C4: what a reader sees is at every moment the result of a whole number
\* of complete batches: nothing of a batch under way, and nothing of a batch
\* that raised part-way, now or after a later commit on the connection.
C4_WholeBatches == Seen(db) = Seen(whole)

\* C11: a call of init_db, the first or a later one, at any point between
\* or inside insert_temperature_records calls, raises nothing, leaves the
\* two tables in place, and on a store that already has them changes
\* neither their structure nor any locations or temperatures row, committed
\* or pending on the writer's connection.
C11_SchemaIdempotent ==
    [][(InitDb \/ InitDbAgain) =>
        /\ outcome' # "init_raised"
        /\ db'.schema
        /\ db.schema => db' = db
        /\ db'.locations = db.locations
        /\ db'.temperatures = db.temperatures
        /\ txn' = txn
      ]_vars

\* init_db ran again on a store with rows while a batch was not committed.
C11_Witness ==
    /\ outcome = "init_ok" /\ txn.active
    /\ db.schema /\ Observations(db) # {}
    /\ Observations(txn.db) # Observations(db)

(***************************************************************************)
(* The normalizers on their own: a payload is drawn, then one of           *)
(* extract_temperature_records and the loop of fetch_temperature_table     *)
(* runs on it.                                                             *)
(***************************************************************************)
MaxDaily == 2

SeqsUpTo(S, n) == UNION {[1..k -> S] : k \in 0..n}

\* A daily element without one of its keys.
NoDate(raw) == [temperature |-> raw]
NoTemp(date) == [dataDate |-> date]

\* What a daily element is built from: a raw temperature, or "absent".
Absent == [k |-> "absent", v |-> 0]
RawTemps ==
    {RawNum(22), RawStr(20), RawBad, RawInf, RawNan, RawNull,
     RawBool(1), RawBool(0), RawList}
ElementOf(date, x) == IF x = Absent THEN NoTemp(date) ELSE Element(date, x)

PlainEntry == Entry("B", <<Element("d1", RawStr(30))>>, <<Element("d1", RawStr(5))>>)

\* Daily sequences of different lengths, with malformed elements among them.
PairMax ==
    {Element("d1", RawStr(20)), Element("d2", RawNum(22)),
     Element("d1", RawBad), NoDate(RawStr(20))}
PairMin == {Element("d1", RawStr(10)), NoTemp("d2"), Element("d2", RawNull)}
PairEntries ==
    {Entry("A", maxd, mind) :
        <<maxd, mind>> \in SeqsUpTo(PairMax, MaxDaily) \X SeqsUpTo(PairMin, MaxDaily)}

\* One pair with any two raw temperatures, followed by a well-formed pair.
CoerceEntry(x, y) ==
    Entry("A", <<ElementOf("d1", x), Element("d2", RawStr(22))>>,
               <<ElementOf("d1", y), Element("d2", RawNum(8))>>)
CoerceEntries ==
    {CoerceEntry(x, y) : <<x, y>> \in (RawTemps \cup {Absent}) \X (RawTemps \cup {Absent})}

\* Location entries without one of their keys, or with a null name.
BrokenEntries ==
    {[weatherElements |-> PlainEntry.weatherElements],
     [locationName |-> "A"],
     [locationName |-> "A", weatherElements |-> [MinT |-> PlainEntry.weatherElements.MinT]],
     [locationName |-> "A",
      weatherElements |-> [MaxT |-> PlainEntry.weatherElements.MaxT, MinT |-> <<>>]],
     Entry(None, <<Element("d1", RawStr(20))>>, <<Element("d1", RawStr(10))>>)}

NormEntries == PairEntries \cup CoerceEntries \cup BrokenEntries

\* Payloads whose location sequence is there, and payloads where the path
\* to it ends early.
NormFeeds ==
    {Feed(<<>>)}
    \cup {Feed(<<e>>) : e \in NormEntries}
    \cup {Feed(<<e, PlainEntry>>) : e \in NormEntries}
    \cup {Feed(<<PlainEntry, e>>) : e \in NormEntries}
CutFeeds == {Wrap(SubSeq(PathKeys, 1, k), <<>>) : k \in 0..(Len(PathKeys) - 1)}

InitNorm ==
    /\ payload \in NormFeeds \cup CutFeeds
    /\ ncall = "none" /\ nres = Ok(<<>>)
    /\ db = EmptyDb /\ conn = "none" /\ txn = NoTxn
    /\ pc = "idle" /\ done = <<>> /\ todo = <<>> /\ rerun = FALSE
    /\ outcome = "none"
    /\ whole = EmptyDb
    /\ upstream = Down /\ dbCache = NoEntry /\ fetchCache = NoEntry
    /\ shown = NotShown /\ gap = 0

\* records = extract_temperature_records(data)
Extract ==
    /\ ncall = "none"
    /\ ncall' = "extract"
    /\ nres' = extract_temperature_records(payload)
    /\ UNCHANGED <<payload, storeVars, readerVars>>

\* The loop of fetch_temperature_table over the decoded response.
FetchLoop ==
    /\ ncall = "none"
    /\ ncall' = "fetch"
    /\ nres' = FetchRows(payload)
    /\ UNCHANGED <<payload, storeVars, readerVars>>

NextNorm == Extract \/ FetchLoop

SpecNorm == InitNorm /\ [][NextNorm]_vars

(***************************************************************************)
(* The dashboard (streamlit_app.main) beside ingestion runs                *)
(* (dblite3.main), the endpoint and the clock.                             *)
(***************************************************************************)
LiveFeeds ==
    {OnePair("A", "d1", RawStr(10), RawStr(20)),
     Feed(<<Entry("B", <<Element("d1", RawNum(22))>>, <<Element("d1", RawBad)>>),
            Entry("A", <<Element("d2", RawStr(25))>>, <<Element("d2", RawStr(15))>>)>>),
     Feed(<<>>),
     Wrap(SubSeq(PathKeys, 1, 2), <<>>)}

Upstreams == {Down} \cup {Up(p) : p \in LiveFeeds}

\* Seconds the clock may advance by in one step.
Ticks == {200, 3400}

\* The loop of insert_temperature_records run to its end or to the first
\* exception, on the connection's view d.
RECURSIVE RunBatch(_, _)
RunBatch(d, recs) ==
    IF recs = <<>> THEN [exc |-> "none", db |-> d]
    ELSE LET r == InsertOne(d, Head(recs))
         IN  IF r.exc # "none" THEN r ELSE RunBatch(r.db, Tail(recs))

\* (mutant) main opening the store (init_db) before it fetches
IngestRun_InitFirst ==
    /\ pc = "idle" /\ conn = "none"
    /\ LET recs == extract_temperature_records(upstream.body)
           run == RunBatch(CreateTables(db), recs.val)
       IN  IF ~upstream.up
           THEN /\ outcome' = "fetch_raised"
                /\ db' = CreateTables(db) /\ whole' = CreateTables(whole)
           ELSE IF recs.exc # "none"
           THEN /\ outcome' = "extract_raised"
                /\ db' = CreateTables(db) /\ whole' = CreateTables(whole)
           ELSE IF run.exc # "none"
           THEN /\ outcome' = "raised"
                /\ db' = CreateTables(db) /\ whole' = CreateTables(whole)
           ELSE /\ outcome' = "committed"
                /\ db' = run.db /\ whole' = run.db
    /\ UNCHANGED <<conn, txn, pc, done, todo, rerun, normVars, readerVars>>

\* dblite3.main as one process: fetch, extract, init_db, insert, commit,
\* close.  An exception ends the process: what init_db committed stays, what
\* the insert wrote is rolled back.
IngestRun ==
    /\ pc = "idle" /\ conn = "none"
    /\ LET recs == extract_temperature_records(upstream.body)
           run == RunBatch(CreateTables(db), recs.val)
       IN  IF ~upstream.up
           THEN outcome' = "fetch_raised" /\ UNCHANGED <<db, whole>>
           ELSE IF recs.exc # "none"
           THEN outcome' = "extract_raised" /\ UNCHANGED <<db, whole>>
           ELSE IF run.exc # "none"
           THEN /\ outcome' = "raised"
                /\ db' = CreateTables(db) /\ whole' = CreateTables(whole)
           ELSE /\ outcome' = "committed"
                /\ db' = run.db /\ whole' = run.db
    /\ UNCHANGED <<conn, txn, pc, done, todo, rerun, normVars, readerVars>>

\* (mutant) main without the try / except around fetch_temperature_table
Present_NoExcept(res) ==
    IF res.exc = "none" THEN [src |-> "live", table |-> res.val]
    ELSE [src |-> "crash", table |-> <<>>]

\* try: df = fetch_temperature_table() except Exception: st.error(...); return
Present(res) ==
    IF res.exc = "none" THEN [src |-> "live", table |-> res.val]
    ELSE [src |-> "error", table |-> <<>>]

\* (mutant) the live table is preferred whenever it can be had
ChooseSource_LiveFirst(df_db, live) ==
    IF live.exc = "none" THEN Present(live)
    ELSE [src |-> "db", table |-> df_db]

\* if not df_db.empty: df = df_db else: the live fallback
ChooseSource(df_db, live) ==
    IF df_db # <<>> THEN [src |-> "db", table |-> df_db] ELSE Present(live)

\* One run of streamlit_app.main up to the choice of the table to present.
ReadRequest ==
    LET q == CachedCall(dbCache, TtlDb, Ok(LoadDb(db)))
        df_db == q.res.val
        f == CachedCall(fetchCache, TtlFetch, FetchTable(upstream))
        out == ChooseSource(df_db, f.res)
    IN  /\ dbCache' = q.cache
        /\ fetchCache' = IF df_db # <<>> THEN fetchCache ELSE f.cache
        /\ shown' = [src |-> out.src, table |-> out.table, dfdb |-> df_db,
                     queried |-> q.called,
                     fetched |-> df_db = <<>> /\ f.called,
                     stale |-> fetchCache.has /\ ~Fresh(fetchCache, TtlFetch)]
        /\ gap' = 0
        /\ UNCHANGED <<upstream, storeVars, normVars>>

\* The clock advances.
Tick ==
    \E d \in Ticks :
        /\ dbCache' = Aged(dbCache, TtlDb, d)
        /\ fetchCache' = Aged(fetchCache, TtlFetch, d)
        /\ gap' = IF gap + d >= TtlDb THEN TtlDb ELSE gap + d
        /\ UNCHANGED <<upstream, shown, storeVars, normVars>>

\* The endpoint goes down, comes up, or publishes another feed.
SetUpstream ==
    /\ upstream' \in Upstreams \ {upstream}
    /\ UNCHANGED <<dbCache, fetchCache, shown, gap, storeVars, normVars>>

NextReader == IngestRun \/ ReadRequest \/ Tick \/ SetUpstream

SpecReader == Init /\ [][NextReader]_vars

(***************************************************************************)
(* The normalizers: pairing, coercion, failures.                           *)
(***************************************************************************)
HasPath(p) == Dig(p, PathKeys).exc = "none"
LocationsOf(p) == Dig(p, PathKeys).val
HasKeys(e) ==
    /\ "locationName" \in DOMAIN e
    /\ Dig(e, <<"weatherElements", "MaxT", "daily">>).exc = "none"
    /\ Dig(e, <<"weatherElements", "MinT", "daily">>).exc = "none"
MaxOf(e) == e.weatherElements.MaxT.daily
MinOf(e) == e.weatherElements.MinT.daily
Paired(e) == Min2(Len(MaxOf(e)), Len(MinOf(e)))
Dated(e) == \A i \in 1..Paired(e) : "dataDate" \in DOMAIN MaxOf(e)[i]
WellKeyed(p) ==
    /\ HasPath(p)
    /\ \A i \in 1..Len(LocationsOf(p)) : HasKeys(LocationsOf(p)[i])

RECURSIVE Flatten(_)
Flatten(ss) == IF ss = <<>> THEN <<>> ELSE Head(ss) \o Flatten(Tail(ss))

\* The temperature the normalizer that ran makes of a daily element.
TempAt(el) == IF ncall = "extract" THEN ExtractTemp(el) ELSE FetchTemp(el)
DateAt(el) == IF "dataDate" \in DOMAIN el THEN el.dataDate ELSE None

\* The observations the pairing rule gives for one location entry.
PairedObs(e) ==
    [i \in 1..Paired(e) |->
        <<e.locationName, DateAt(MaxOf(e)[i]), TempAt(MinOf(e)[i]), TempAt(MaxOf(e)[i])>>]

\* C6: for a payload whose entries have their keys (and, for
\* extract_temperature_records, whose paired MaxT elements have a dataDate),
\* the normalizer returns, entry after entry, exactly min(a, b) observations
\* for an entry with a MaxT elements and b MinT elements, the i-th with the
\* date and max of MaxT[i] and the min of MinT[i]; what lies past min(a, b)
\* in the longer sequence yields nothing and raises nothing.
C6_Pairing ==
    (/\ ncall # "none"
     /\ WellKeyed(payload)
     /\ ncall = "extract" => \A i \in 1..Len(LocationsOf(payload)) :
                                  Dated(LocationsOf(payload)[i]))
    => /\ nres.exc = "none"
       /\ nres.val = Flatten([i \in 1..Len(LocationsOf(payload)) |->
                                  PairedObs(LocationsOf(payload)[i])])

\* extract_temperature_records ran on an entry with 2 MaxT and 1 MinT
\* elements, the unpaired MaxT element having no dataDate, and a second entry.
C6_Witness ==
    /\ ncall = "extract" /\ nres.exc = "none"
    /\ HasPath(payload) /\ Len(LocationsOf(payload)) = 2
    /\ LET e == LocationsOf(payload)[1]
       IN  /\ HasKeys(e) /\ Len(MaxOf(e)) = 2 /\ Len(MinOf(e)) = 1
           /\ "dataDate" \notin DOMAIN MaxOf(e)[2]
    /\ Len(nres.val) = 2

\* The pairs of daily elements of a payload, in the order they are visited.
AllPairs(p) ==
    Flatten([i \in 1..Len(LocationsOf(p)) |->
                Zip(MaxOf(LocationsOf(p)[i]), MinOf(LocationsOf(p)[i]))])

\* The temperature the claim gives a daily element: the number of a numeric
\* field, the missing marker for a field that is absent, of another type, or
\* a string that is no finite number.
ClaimedTemp(el) ==
    IF "temperature" \notin DOMAIN el THEN NoneT
    ELSE IF el.temperature.k \in {"num", "numstr"} THEN Float(el.temperature.v)
    ELSE NoneT

\* C7: every observation a normalizer returns has, in each temperature
\* field, the number of a well-formed field and the missing marker for a
\* field that is absent, of the wrong type or unparsable, whatever the other
\* fields of the batch hold; so a temperature is finite or missing.
C7_MissingMarker ==
    (ncall # "none" /\ nres.exc = "none")
    => \A i \in 1..Len(nres.val) :
          /\ nres.val[i][3] = ClaimedTemp(AllPairs(payload)[i][2])
          /\ nres.val[i][4] = ClaimedTemp(AllPairs(payload)[i][1])
          /\ nres.val[i][3] = NoneT \/ IsFinite(nres.val[i][3])
          /\ nres.val[i][4] = NoneT \/ IsFinite(nres.val[i][4])

\* C8: extract_temperature_records raises exactly when the location
\* sequence cannot be located in the payload.
C8_OnlyTopLevelRaises ==
    ncall = "extract" => (nres.exc # "none" <=> ~HasPath(payload))

\* What the normalizer that did not run makes of the payload.
OtherNormalizer ==
    IF ncall = "extract" THEN FetchRows(payload)
    ELSE extract_temperature_records(payload)

ObsSet(rows) == {rows[i] : i \in 1..Len(rows)}

\* C14: on every payload extract_temperature_records and the loop of
\* fetch_temperature_table end alike: both raise, or both return and the
\* (location, date, min, max) observations of the one are those of the
\* other.
C14_SameNormalization ==
    ncall # "none" =>
        /\ nres.exc = "none" <=> OtherNormalizer.exc = "none"
        /\ (nres.exc = "none" /\ OtherNormalizer.exc = "none")
              => ObsSet(nres.val) = ObsSet(OtherNormalizer.val)

(***************************************************************************)
(* The read path: precedence of the store, failures, the two caches.       *)
(***************************************************************************)
\* C5 as claimed: a read request returns exactly the rows the store holds
\* at that moment, and uses no live fetch, when the store holds rows; it
\* makes a live fetch and returns its normalized table when the store holds
\* none.
C5_FallbackPrecedence ==
    [][ReadRequest =>
        IF LoadDb(db) # <<>>
        THEN /\ shown'.src = "db" /\ shown'.table = LoadDb(db)
             /\ ~shown'.fetched
        ELSE /\ shown'.fetched
             /\ shown'.src \in {"live", "error"}
             /\ shown'.src = "live" => shown'.table = FetchTable(upstream).val
      ]_vars

\* C5 as amended: a read request returns exactly the rows of the
\* load_db_temperature result it gets (queried at that moment, or memoized
\* less than TtlDb seconds before) and uses no live fetch result when that
\* result holds rows; when it holds none the request returns the
\* fetch_temperature_table result (fetched at that moment, or memoized less
\* than TtlFetch seconds before), or the error outcome when that call raises.
C5_CachedPrecedence ==
    [][ReadRequest =>
        LET df_db == IF Fresh(dbCache, TtlDb) THEN dbCache.val ELSE LoadDb(db)
            live == IF Fresh(fetchCache, TtlFetch) THEN Ok(fetchCache.val)
                    ELSE FetchTable(upstream)
        IN  IF df_db # <<>>
            THEN /\ shown'.src = "db" /\ shown'.table = df_db
                 /\ ~shown'.fetched /\ fetchCache' = fetchCache
            ELSE IF live.exc = "none"
            THEN shown'.src = "live" /\ shown'.table = live.val
            ELSE shown'.src = "error" /\ shown'.table = <<>>
      ]_vars

\* A request answered from the store although a fresh live table is memoized.
C5_Witness ==
    /\ shown.src = "db" /\ Len(shown.table) = 2 /\ gap = 0
    /\ Fresh(fetchCache, TtlFetch) /\ fetchCache.val # shown.table

\* The name of the locations row an observation row points to.
NameOf(d, t) == (CHOOSE l \in d.locations : l.id = t.location_id).name

\* C12: a store query that runs (its memoized result had expired) returns
\* one row for every temperatures row of the committed store, each with
\* the name of its location and its date, min and max (NULL shown as NaN),
\* the rows in ascending order of location and, within a location, of
\* date; it returns the empty table, and the request does not crash, when
\* the store has no tables or no rows.
C12_StoreQuery ==
    [][(ReadRequest /\ shown'.queried) =>
        LET t == shown'.dfdb
        IN  /\ Len(t) = Cardinality(db.temperatures)
            /\ \A o \in db.temperatures :
                  /\ \E l \in db.locations : l.id = o.location_id
                  /\ \E i \in 1..Len(t) :
                        t[i] = <<NameOf(db, o), o.date,
                                 DfCell(o.min_temp_c), DfCell(o.max_temp_c)>>
            /\ \A i, j \in 1..Len(t) :
                  i < j => \/ Rank(t[i][1]) < Rank(t[j][1])
                           \/ /\ t[i][1] = t[j][1]
                              /\ Rank(t[i][2]) < Rank(t[j][2])
            /\ (~db.schema \/ db.temperatures = {}) => t = <<>>
            /\ shown'.src \in {"db", "live", "error"}
      ]_vars

\* A query that ran on a store where the order of the SELECT (date, then
\* name) is not the order of the table returned.
C12_Witness ==
    /\ shown.queried /\ gap = 0 /\ dbCache.age = 0
    /\ shown.dfdb = LoadDb(db) /\ Len(shown.dfdb) = 3
    /\ shown.dfdb[2][2] = "d2" /\ shown.dfdb[3][2] = "d1"

\* C13: an ingestion run whose fetch fails (endpoint down) or whose
\* extract_temperature_records raises ends with that exception, and the
\* store after it is the store before it: tables, locations rows and
\* temperatures rows; a run ends in one of these two ways only then.
C13_FailedRunWritesNothing ==
    [][IngestRun =>
        /\ ~upstream.up => outcome' = "fetch_raised"
        /\ (upstream.up /\ extract_temperature_records(upstream.body).exc # "none")
              => outcome' = "extract_raised"
        /\ outcome' \in {"fetch_raised", "extract_raised"}
              => /\ db' = db
                 /\ ~upstream.up
                    \/ extract_temperature_records(upstream.body).exc # "none"
      ]_vars

\* A run on a store with rows ended by the normalizer raising.
C13_Witness ==
    /\ outcome = "extract_raised" /\ upstream.up
    /\ extract_temperature_records(upstream.body).exc # "none"
    /\ db.schema /\ Observations(db) # {}

\* C9: a read request never crashes; with an empty store and no fresh
\* memoized live table, a failing fetch or normalization ends in the error
\* outcome; and a request that needs the live table while the endpoint fails
\* never presents a memoized table whose time-to-live has expired.
C9_Unavailable ==
    [][ReadRequest =>
        /\ shown'.src \in {"db", "live", "error"}
        /\ (/\ LoadDb(db) = <<>>
            /\ ~Fresh(fetchCache, TtlFetch)
            /\ FetchTable(upstream).exc # "none")
           => shown'.src = "error" /\ shown'.table = <<>>
        /\ (/\ shown'.dfdb = <<>>
            /\ fetchCache.has /\ fetchCache.age >= TtlFetch
            /\ FetchTable(upstream).exc # "none")
           => shown'.src = "error" /\ ~fetchCache'.has
      ]_vars

\* A request that found an expired live table while the endpoint was down.
C9_Witness ==
    /\ shown.src = "error" /\ shown.stale /\ gap = 0
    /\ ~upstream.up /\ LoadDb(db) = <<>>

\* C10 as claimed, for load_db_temperature: two calls less than TtlDb
\* seconds apart return the same value.
C10_AnyTwoCalls ==
    [][(ReadRequest /\ shown.src # "none" /\ gap < TtlDb)
        => shown'.dfdb = shown.dfdb]_vars

\* C10 as amended: a call made less than one time-to-live after the call
\* that memoized the value does not run the query / fetch and returns that
\* value; a call made with no entry, or a time-to-live or more after the
\* entry was memoized, runs it again, memoizes what it returns and memoizes
\* nothing when it raises; each entry is handled by its own age alone.
C10_Ttl ==
    [][ReadRequest =>
        /\ IF Fresh(dbCache, TtlDb)
           THEN /\ ~shown'.queried /\ shown'.dfdb = dbCache.val
                /\ dbCache' = dbCache
           ELSE /\ shown'.queried /\ shown'.dfdb = LoadDb(db)
                /\ dbCache' = [has |-> TRUE, val |-> LoadDb(db), age |-> 0]
        /\ IF shown'.dfdb # <<>>
           THEN fetchCache' = fetchCache
           ELSE IF Fresh(fetchCache, TtlFetch)
           THEN /\ ~shown'.fetched /\ shown'.table = fetchCache.val
                /\ fetchCache' = fetchCache
           ELSE /\ shown'.fetched
                /\ fetchCache' =
                     IF FetchTable(upstream).exc = "none"
                     THEN [has |-> TRUE, val |-> FetchTable(upstream).val, age |-> 0]
                     ELSE NoEntry
      ]_vars

\* A request that ran the store query again (its entry had expired) and
\* took the live table from an entry older than TtlDb, not yet expired.
C10_Witness ==
    /\ shown.src = "live" /\ shown.queried /\ ~shown.fetched /\ gap = 0
    /\ dbCache.has /\ dbCache.age = 0
    /\ fetchCache.has /\ fetchCache.age >= TtlDb /\ fetchCache.age < TtlFetch

====
